---- MODULE Spec2Model ----
(***************************************************************************)
(* A model of the exam-barcode scanner: the local store (Dexie tables),    *)
(* barcode validation, scan processing, barcode generation, mark saving,   *)
(* the mock sync of the sync queue, and the offline login.                 *)
(*                                                                         *)
(* Time is counted in whole days (24*60*60*1000 ms); an ISO date string    *)
(* written with toISOString() and read back with new Date() is the same    *)
(* instant, so a stored date is kept as its day number.  An optional       *)
(* field (syncedAt?, barcode?, exam?) is a set: {} when undefined, {v}     *)
(* when set.  crypto.randomUUID() hands out the ids "u1", "u2", ...        *)
(***************************************************************************)
EXTENDS Integers, Sequences, FiniteSets, TLC

VARIABLES
  now,          \* the wall clock (Date.now()), in days
  online,       \* navigator.onLine
  users,        \* db.users      : id -> User
  exams,        \* db.exams      : id -> Exam
  barcodes,     \* db.barcodes   : id -> Barcode
  scanLogs,     \* db.scanLogs   : id -> ScanLog
  examMarks,    \* db.examMarks  : id -> ExamMarks
  syncQueue,    \* db.syncQueue  : id -> SyncQueue
  lsExamMarks,  \* localStorage 'examMarks' (backup list of marks records)
  authToken,    \* localforage 'auth_token' ({} or {payload})
  userData,     \* localforage 'user_data'  ({} or {record})
  uuids,        \* how many ids crypto.randomUUID() has handed out
  sync,         \* the syncData call in flight, and the last one's result
  scanResult,   \* ScannerComponent state: scanResult ({} or {record})
  showMarkEntry,\* ScannerComponent state: showMarkEntry
  ret,          \* the last call of login, logout, processScan or saveExamMarks and its result
  scanner,      \* the BarcodeScanner object: scanning, stream, timeoutId, srcObject
  liveStreams,  \* the camera streams handed out whose tracks are not stopped
  timers,       \* the armed window.setTimeout timers, in the order they were armed
  frames,       \* how many requestAnimationFrame(scanFrame) callbacks are pending
  startCalls,   \* the start() calls in flight: call -> where it is waiting
  callbacks,    \* how often the scanner has called each of its options
  lastCall,     \* the last method called on the scanner: "none", "start" or "stop"
  viewScanning, \* ScannerComponent state: scanning
  error,        \* ScannerComponent state: error ({} when null)
  syncing,      \* SyncStatus state: syncing
  viewOnline,   \* SyncStatus state: online
  listener,     \* the state the registered handleOnline closes over ({} before mount)
  runs,         \* the handleSync calls: run -> where it is, what it read and counted
  loginCall,    \* the login() call in flight and the last one's result
  userCalls,    \* the getCurrentUser() calls: call -> where it is and what it read
  lastPullSync, \* localStorage 'lastPullSync' ({} or {day})
  pull,         \* the pullUpdates call in flight, and the last one's result
  allMarks,     \* ScannerComponent state: marks, subject -> q1, q2, q3, total (strings)
  subjectMarks, \* the single-subject form's state: marks
  formTotal,    \* the single-subject form's state: totalMarks
  loads         \* how often main has run (each run calls seedDatabase)

vars == <<now, online, users, exams, barcodes, scanLogs, examMarks, syncQueue,
          lsExamMarks, authToken, userData, uuids, sync, scanResult,
          showMarkEntry, ret,
          scanner, liveStreams, timers, frames, startCalls, callbacks, lastCall,
          viewScanning, error, syncing, viewOnline, listener, runs,
          loginCall, userCalls, lastPullSync, pull, allMarks, subjectMarks,
          formTotal, loads>>

storeVars == <<users, exams, barcodes, scanLogs, examMarks, syncQueue, lsExamMarks>>
authVars  == <<authToken, userData>>
uiVars    == <<scanResult, showMarkEntry>>

\* the variables of the first group above, up to ret
baseVars    == <<now, online, storeVars, authVars, uuids, sync, uiVars, ret>>
scannerVars == <<scanner, liveStreams, timers, frames, startCalls, callbacks, lastCall>>
viewVars    == <<viewScanning, error>>
syncUiVars  == <<syncing, viewOnline, listener, runs>>
callVars    == <<loginCall, userCalls>>
pullVars    == <<lastPullSync, pull>>
formVars    == <<allMarks, subjectMarks, formTotal>>
moreVars    == <<pullVars, formVars, loads>>
extVars     == <<scannerVars, viewVars, syncUiVars, callVars, moreVars>>

-----------------------------------------------------------------------------
(* Bounds of the model                                                     *)

MaxNow == 20
TickStep == 10
MaxOps == 2
MaxStarts == 2
MaxRuns == 2
MaxDay == 32
MaxLogins == 2
MaxSessionDay == 8
MaxLoads == 3
MaxUserCalls == 2
EpochYear == 2026

(* Program constants                                                       *)

MAX_RETRY_ATTEMPTS == 5
ExamValidityDays == 30
TokenDays == 7

(* Inputs                                                                  *)

NoUser == "null"
ScanUsers == {NoUser, "2"}
ScanCodes == {"JAV2023001", "JS2023001", "PHP2023002", "NOPE0000"}
Subjects == { <<"J", "a", "v", "a">>,
              <<"J", "a", "v", "a", "S", "c", "r", "i", "p", "t">> }
\* the test codes the dashboard tells the operator to enter
TestCodes == {"MATH2023001", "PHYS2023002", "BIO2023001"}
RandomNums == {123456}
Students == {"STU100"}
MarkTotals == {42}

-----------------------------------------------------------------------------
(* Helpers                                                                 *)

UUID(n) == "u" \o ToString(n)

\* table.add(record) on a table keyed by id
Put(table, rec) == (rec.id :> rec) @@ table

\* the one element of an optional field that is set
The(S) == CHOOSE x \in S : TRUE

\* x || 'unknown' on a string
OrUnknown(x) == IF x = "" THEN "unknown" ELSE x

\* new Date(isoString): the instant the string was written from
ParseDate(iso) == iso

\* new Date().getFullYear()
FullYear(t) == EpochYear + (t \div 365)

-----------------------------------------------------------------------------
(* seedDatabase: the demo data                                             *)

User(id, username, passwordHash, role, t) ==
  [id |-> id, username |-> username, passwordHash |-> passwordHash,
   role |-> role, lastLogin |-> t]

\* a title is kept as its words: the titles have single blanks between words
Exam(id, title, subject, t, expiry) ==
  [id |-> id, title |-> title, subject |-> subject, date |-> t,
   expiryDate |-> expiry, createdAt |-> t, updatedAt |-> t]

Barcode(id, code, examId, studentId, isValid, t) ==
  [id |-> id, code |-> code, examId |-> examId, studentId |-> studentId,
   isValid |-> isValid, createdAt |-> t, updatedAt |-> t]

ScanLog(id, barcodeId, examId, studentId, status, scannedBy, t, syncStatus, syncedAt, notes) ==
  [id |-> id, barcodeId |-> barcodeId, examId |-> examId, studentId |-> studentId,
   status |-> status, scannedBy |-> scannedBy, scannedAt |-> t,
   syncStatus |-> syncStatus, syncedAt |-> syncedAt, notes |-> notes]

SeedUsers(t) ==
  Put(Put(<< >>,
    User("1", "admin", "14c4b06b824ec593239362517f538b29", "admin", t)),
    User("2", "examiner", "098f6bcd4621d373cade4e832627b4f6", "examiner", t))

SeedExams(t) ==
  LET rows == { Exam("1", <<"Java", "Programming", "Final", "Exam">>, "Java", t, t + 30),
                Exam("2", <<"PHP", "Programming", "Midterm">>, "PHP", t, t + 15),
                Exam("3", <<"Python", "Programming", "Exam">>, "Python", t, t + 7),
                Exam("4", <<"JavaScript", "Fundamentals">>, "JavaScript", t, t + 10),
                Exam("5", <<"Operating", "Systems", "&", "Lab">>,
                     "Operating Systems & Lab", t, t + 20),
                Exam("6", <<"Expired", "Exam">>, "Biology", t, t - 5) }
  IN  [id \in {r.id : r \in rows} |-> CHOOSE r \in rows : r.id = id]

SeedBarcodes(t) ==
  LET rows == { Barcode("1", "JAV2023001", "1", "STU001", TRUE, t),
                Barcode("2", "JAV2023002", "1", "STU002", TRUE, t),
                Barcode("3", "PHP2023001", "2", "STU001", TRUE, t),
                Barcode("4", "PHP2023002", "2", "STU003", FALSE, t),
                Barcode("5", "PYT2023001", "3", "STU004", TRUE, t),
                Barcode("6", "PYT2023002", "3", "STU005", TRUE, t),
                Barcode("7", "JS2023001", "4", "STU006", TRUE, t),
                Barcode("8", "OS2023001", "5", "STU007", TRUE, t),
                Barcode("9", "BIO2023001", "6", "STU008", TRUE, t) }
  IN  [id \in {r.id : r \in rows} |-> CHOOSE r \in rows : r.id = id]

\* the two sample logs, scanned "2 hours ago" and "1 hour ago" (the same day)
SampleLogs(t, id1, id2) ==
  Put(Put(<< >>,
    ScanLog(id1, "1", "1", "STU001", "valid", "1", t, "synced", {t}, "Barcode is valid")),
    ScanLog(id2, "4", "2", "STU003", "invalid", "2", t, "pending", {}, "Barcode marked as invalid"))

Seeded == DOMAIN users # {}

NoCall == [op |-> "none"]

\* a BarcodeScanner as its constructor leaves it
NewScanner == [scanning |-> FALSE, stream |-> {}, timeoutId |-> {}, srcObject |-> {}]

\* no option has been called; onError keeps the messages it was called with
NoCallbacks == [onStart |-> 0, onStop |-> 0, onDetected |-> 0, onError |-> << >>]

\* no login() call is in flight and none has returned
NoLogin == [pc |-> "idle", calls |-> 0, user |-> {}, token |-> {}, result |-> {}]

\* no pullUpdates() call is in flight and none has returned
NoPull == [pc |-> "idle", result |-> {}]

\* the marks of one subject as useState leaves them; a string is kept as the
\* sequence of its characters
NoSubjectMarks == [q1 |-> << >>, q2 |-> << >>, q3 |-> << >>, total |-> <<"0">>]

FormSubjects == {"java", "cpp", "python", "javascript", "os"}

NoMarks == [subject \in FormSubjects |-> NoSubjectMarks]

\* the marks of the single-subject form as useState and resetScanner leave them
NoMarksOfSubject == [tenMarks |-> 0, fourMarks |-> <<0, 0, 0, 0>>, eightMarks |-> <<0, 0, 0>>]

\* sync.queued is the set of row ids in the queue when the call read it
NoSync == [pc |-> "idle", items |-> {}, read |-> {}, queued |-> {}, result |-> {}]

\* what the handlers have written on top of the seeded data
Written ==
  Cardinality(DOMAIN exams \ DOMAIN SeedExams(0))
    + Cardinality(DOMAIN scanLogs \ {UUID(1), UUID(2)})
    + Cardinality(DOMAIN examMarks)

Init ==
  /\ now = 0
  /\ online = TRUE
  /\ users = << >>
  /\ exams = << >>
  /\ barcodes = << >>
  /\ scanLogs = << >>
  /\ examMarks = << >>
  /\ syncQueue = << >>
  /\ lsExamMarks = << >>
  /\ authToken = {}
  /\ userData = {}
  /\ uuids = 0
  /\ sync = NoSync
  /\ scanResult = {}
  /\ showMarkEntry = FALSE
  /\ ret = NoCall
  /\ scanner = NewScanner
  /\ liveStreams = {}
  /\ timers = << >>
  /\ frames = 0
  /\ startCalls = << >>
  /\ callbacks = NoCallbacks
  /\ lastCall = "none"
  /\ viewScanning = FALSE
  /\ error = {}
  /\ syncing = FALSE
  /\ viewOnline = TRUE
  /\ listener = {}
  /\ runs = << >>
  /\ loginCall = NoLogin
  /\ userCalls = << >>
  /\ lastPullSync = {}
  /\ pull = NoPull
  /\ allMarks = NoMarks
  /\ subjectMarks = NoMarksOfSubject
  /\ formTotal = 0
  /\ loads = 0

\* the test of seedDatabase with the store never taken to be seeded
AlreadySeededNever == FALSE

\* userCount > 0: 'Database already seeded'
AlreadySeeded == Cardinality(DOMAIN users) > 0

\* seedDatabase(): what it does to the tables
seedDatabase ==
  IF AlreadySeeded
    THEN UNCHANGED <<users, exams, barcodes, scanLogs, uuids>>
    ELSE /\ users' = SeedUsers(now)
         /\ exams' = SeedExams(now)
         /\ barcodes' = SeedBarcodes(now)
         /\ scanLogs' = SampleLogs(now, UUID(uuids + 1), UUID(uuids + 2))
         /\ uuids' = uuids + 2

\* seedDatabase(), run by main before the application is rendered
SeedDatabase ==
  /\ seedDatabase
  /\ UNCHANGED extVars
  /\ UNCHANGED <<now, online, examMarks, syncQueue, lsExamMarks, authVars, sync, uiVars, ret>>

\* the page is loaded: main runs seedDatabase() again; the loads are counted
PageLoad ==
  /\ loads < MaxLoads
  /\ loads' = loads + 1
  /\ seedDatabase
  /\ UNCHANGED <<scannerVars, viewVars, syncUiVars, callVars, pullVars, formVars>>
  /\ UNCHANGED <<now, online, examMarks, syncQueue, lsExamMarks, authVars, sync, uiVars, ret>>

\* the clock advances; day 0 is the first load, which seeds the store at once
Tick ==
  /\ Seeded
  /\ now + TickStep <= MaxNow
  /\ now' = now + TickStep
  /\ UNCHANGED extVars
  /\ UNCHANGED <<online, storeVars, authVars, uuids, sync, uiVars, ret>>

\* the clock advances by a number of days, up to the day MaxDay
Elapse(days) ==
  /\ Seeded
  /\ now + days <= MaxDay
  /\ now' = now + days
  /\ UNCHANGED extVars
  /\ UNCHANGED <<online, storeVars, authVars, uuids, sync, uiVars, ret>>

\* isOnline() with the device taken to be online whatever the browser says
IsOnlineAlways == TRUE

\* isOnline(): navigator.onLine
IsOnline == online

\* the browser's 'online' / 'offline' events
SetOnline(b) ==
  /\ online # b
  /\ online' = b
  /\ UNCHANGED extVars
  /\ UNCHANGED <<now, storeVars, authVars, uuids, sync, uiVars, ret>>

-----------------------------------------------------------------------------
(* db/schema.ts: sync queue, validation                                    *)

SyncRow(id, action, table, recordId, t) ==
  [id |-> id, action |-> action, table |-> table, recordId |-> recordId,
   attempts |-> 0, createdAt |-> t, lastAttempt |-> {}]

\* addToSyncQueue adding the row twice
addToSyncQueueTwice(queue, id, action, table, recordId) ==
  Put(Put(queue, SyncRow(id, action, table, recordId, now)),
      SyncRow(id \o "-again", action, table, recordId, now))

\* addToSyncQueue(action, table, recordId, data): the queue after the add;
\* id is the row's crypto.randomUUID(). The payload (data) is never read back.
addToSyncQueue(queue, id, action, table, recordId) ==
  Put(queue, SyncRow(id, action, table, recordId, now))

isExamExpired(examId) ==
  IF examId \notin DOMAIN exams
    THEN TRUE
    ELSE ParseDate(exams[examId].expiryDate) < now

\* db.barcodes.where('code').equals(code).first(): of the rows with that code
\* the one with the lowest primary key. The keys are random UUIDs, so which row
\* that is is fixed but arbitrary.
BarcodesWithCode(code) == {id \in DOMAIN barcodes : barcodes[id].code = code}

FirstBarcode(code) ==
  IF BarcodesWithCode(code) = {} THEN {}
  ELSE {barcodes[CHOOSE id \in BarcodesWithCode(code) : TRUE]}

\* validateBarcode with the expiry looked at before the validity flag
validateBarcodeExpiryFirst(code) ==
  LET barcode == FirstBarcode(code) IN
  IF barcode = {}
    THEN [isValid |-> FALSE, barcode |-> {}, exam |-> {},
          message |-> "Barcode not found in database"]
  ELSE IF The(barcode).examId \notin DOMAIN exams
    THEN [isValid |-> FALSE, barcode |-> barcode, exam |-> {},
          message |-> "Associated exam not found"]
  ELSE IF isExamExpired(The(barcode).examId)
    THEN [isValid |-> FALSE, barcode |-> barcode,
          exam |-> {exams[The(barcode).examId]}, message |-> "Exam has expired"]
  ELSE IF ~The(barcode).isValid
    THEN [isValid |-> FALSE, barcode |-> barcode, exam |-> {},
          message |-> "Barcode marked as invalid"]
  ELSE [isValid |-> TRUE, barcode |-> barcode,
        exam |-> {exams[The(barcode).examId]}, message |-> "Barcode is valid"]

validateBarcode(code) ==
  LET barcode == FirstBarcode(code) IN
  IF barcode = {}
    THEN [isValid |-> FALSE, barcode |-> {}, exam |-> {},
          message |-> "Barcode not found in database"]
  ELSE IF ~The(barcode).isValid
    THEN [isValid |-> FALSE, barcode |-> barcode, exam |-> {},
          message |-> "Barcode marked as invalid"]
  ELSE IF The(barcode).examId \notin DOMAIN exams
    THEN [isValid |-> FALSE, barcode |-> barcode, exam |-> {},
          message |-> "Associated exam not found"]
  ELSE IF isExamExpired(The(barcode).examId)
    THEN [isValid |-> FALSE, barcode |-> barcode,
          exam |-> {exams[The(barcode).examId]}, message |-> "Exam has expired"]
  ELSE [isValid |-> TRUE, barcode |-> barcode,
        exam |-> {exams[The(barcode).examId]}, message |-> "Barcode is valid"]

-----------------------------------------------------------------------------
(* utils/scanner.ts: processScan                                           *)

\* message.includes('Expired'): the test with the wrong case
IncludesExpiredCased(message) == message = "Exam has Expired"

\* message.includes('expired')
IncludesExpired(message) == message = "Exam has expired"

\* ScanStatus with a not-found code given the status 'unknown'
ScanStatusUnknown(v) ==
  IF v.isValid THEN "valid"
  ELSE IF IncludesExpired(v.message) THEN "expired"
  ELSE IF v.barcode = {} THEN "unknown" ELSE "invalid"

ScanStatus(v) ==
  IF v.isValid THEN "valid"
  ELSE IF IncludesExpired(v.message) THEN "expired" ELSE "invalid"

\* the scan log processScan builds from the validation result
NewScanLog(id, v, userId) ==
  ScanLog(id,
          IF v.barcode = {} THEN "unknown" ELSE OrUnknown(The(v.barcode).id),
          IF v.exam = {} THEN "unknown" ELSE OrUnknown(The(v.exam).id),
          IF v.barcode = {} THEN "unknown" ELSE OrUnknown(The(v.barcode).studentId),
          ScanStatus(v), userId, now, "pending", {}, v.message)

\* processScan writing the scan log under two ids
processScanTwice(code, userId) ==
  LET v   == validateBarcode(code)
      log == NewScanLog(UUID(uuids + 1), v, userId)
      dup == NewScanLog(UUID(uuids + 3), v, userId)
  IN  /\ scanLogs' = Put(Put(scanLogs, log), dup)
      /\ syncQueue' = addToSyncQueue(syncQueue, UUID(uuids + 2), "create", "scanLogs", log.id)
      /\ uuids' = uuids + 3

\* processScan(code, userId): validates, adds the scan log, queues it
processScan(code, userId) ==
  LET v   == validateBarcode(code)
      log == NewScanLog(UUID(uuids + 1), v, userId)
  IN  /\ scanLogs' = Put(scanLogs, log)
      /\ syncQueue' = addToSyncQueue(syncQueue, UUID(uuids + 2), "create", "scanLogs", log.id)
      /\ uuids' = uuids + 2

-----------------------------------------------------------------------------
(* components/ScannerComponent.tsx: a detected or manually entered code    *)

HandleCodeDetected(code, userId) ==
  /\ Seeded
  /\ IF userId = NoUser
       THEN /\ error' = {"User not authenticated. Please log in again."}
            /\ UNCHANGED <<scanLogs, syncQueue, uuids, uiVars>>
       ELSE /\ Written < MaxOps
            /\ processScan(code, userId)
            /\ UNCHANGED error
            /\ LET validationResult == validateBarcode(code)
                   barcode == validationResult.barcode
               IN  /\ scanResult' =
                        {[isValid |-> validationResult.isValid,
                          message |-> validationResult.message,
                          code |-> code,
                          studentId |-> {b.studentId : b \in barcode},
                          examId |-> {b.examId : b \in barcode},
                          examName |-> {e.title : e \in validationResult.exam}]}
                   /\ showMarkEntry' = (showMarkEntry \/ validationResult.isValid)
  /\ UNCHANGED <<scannerVars, viewScanning, syncUiVars, callVars, moreVars>>
  /\ UNCHANGED <<now, online, users, exams, barcodes, examMarks, lsExamMarks,
                 authVars, sync, ret>>

-----------------------------------------------------------------------------
(* components/BarcodeGenerator.tsx                                         *)

LowerCase == <<"a","b","c","d","e","f","g","h","i","j","k","l","m",
               "n","o","p","q","r","s","t","u","v","w","x","y","z">>
UpperCase == <<"A","B","C","D","E","F","G","H","I","J","K","L","M",
               "N","O","P","Q","R","S","T","U","V","W","X","Y","Z">>

\* one character of s.toUpperCase()
ToUpperChar(c) ==
  IF \E i \in 1..26 : LowerCase[i] = c
    THEN UpperCase[CHOOSE i \in 1..26 : LowerCase[i] = c]
    ELSE c

\* s.substring(0, n) on a sequence of characters
Substring0(s, n) == SubSeq(s, 1, IF Len(s) < n THEN Len(s) ELSE n)

\* the characters of s as one string
RECURSIVE Join(_)
Join(s) == IF s = << >> THEN "" ELSE Head(s) \o Join(Tail(s))

\* s.trim()
RECURSIVE TrimLeft(_)
TrimLeft(s) == IF s # << >> /\ Head(s) = " " THEN TrimLeft(Tail(s)) ELSE s
RECURSIVE TrimRight(_)
TrimRight(s) ==
  IF s # << >> /\ s[Len(s)] = " " THEN TrimRight(SubSeq(s, 1, Len(s) - 1)) ELSE s
Trim(s) == TrimRight(TrimLeft(s))

\* generateRandomCode(prefix), randomNum being Math.floor(100000 + Math.random() * 900000)
generateRandomCode(prefix, randomNum) ==
  Join(Substring0([i \in 1..Len(prefix) |-> ToUpperChar(prefix[i])], 3))
    \o ToString(FullYear(now)) \o ToString(randomNum)

HandleGenerateBarcode(subject, studentId, randomNum, userId) ==
  /\ Seeded
  /\ IF Trim(subject) = << >> \/ studentId = "" \/ userId = NoUser
       THEN UNCHANGED <<exams, barcodes, syncQueue, uuids>>
       ELSE /\ Written < MaxOps
            /\ LET prefix == Substring0(subject, 3)
                   barcodeValue == generateRandomCode(prefix, randomNum)
                   examId == UUID(uuids + 1)
                   exam == Exam(examId, <<Join(subject), "Exam">>, Join(subject),
                                now, now + ExamValidityDays)
                   barcodeId == UUID(uuids + 2)
                   barcode == Barcode(barcodeId, barcodeValue, examId, studentId, TRUE, now)
               IN  /\ exams' = Put(exams, exam)
                   /\ barcodes' = Put(barcodes, barcode)
                   /\ syncQueue' =
                        addToSyncQueue(
                          addToSyncQueue(syncQueue, UUID(uuids + 3), "create", "exams", examId),
                          UUID(uuids + 4), "create", "barcodes", barcodeId)
                   /\ uuids' = uuids + 4
  /\ UNCHANGED extVars
  /\ UNCHANGED <<now, online, users, scanLogs, examMarks, lsExamMarks, authVars,
                 sync, uiVars, ret>>

-----------------------------------------------------------------------------
(* db/schema.ts: saveExamMarks, called by the mark-entry form              *)

ExamMarks(id, examId, studentId, totalMarks, recordedBy, t) ==
  [id |-> id, examId |-> examId, studentId |-> studentId, totalMarks |-> totalMarks,
   recordedBy |-> recordedBy, recordedAt |-> t, syncStatus |-> "pending"]

saveExamMarks(examId, studentId, totalMarks, recordedBy) ==
  LET id == UUID(uuids + 1)
      marks == ExamMarks(id, examId, studentId, totalMarks, recordedBy, now)
  IN  /\ examMarks' = Put(examMarks, marks)
      /\ lsExamMarks' = Append(lsExamMarks, marks)
      /\ syncQueue' = addToSyncQueue(syncQueue, UUID(uuids + 2), "create", "examMarks", id)
      /\ uuids' = uuids + 2

\* a word that begins with 'Exam' (of the words of the titles, 'Exam' alone)
BeginsWithExam(word) == word = "Exam"

\* examName.match(/^(.*?)\s+Exam/)[1]: the words before the first blank that
\* 'Exam' follows, or nothing when no blank is followed by 'Exam'
SubjectMatch(examName) ==
  LET at == {i \in 2..Len(examName) : BeginsWithExam(examName[i])}
  IN  IF at = {}
        THEN {}
        ELSE {SubSeq(examName, 1, (CHOOSE i \in at : \A j \in at : i <= j) - 1)}

\* the subject handleScanResult keeps for the mark-entry form
ScannedSubject == UNION {SubjectMatch(examName) : examName \in The(scanResult).examName}

\* handleSaveMarks(): the Save Marks button of the other variant of the form
HandleSaveMarks(totalMarks, userId) ==
  /\ Seeded
  /\ showMarkEntry
  /\ scanResult # {}
  /\ IF \/ userId = NoUser
        \/ ScannedSubject = {}
        \/ The(scanResult).examId = {}
        \/ The(scanResult).studentId = {}
       THEN /\ error' = {"Missing required information"}
            /\ UNCHANGED <<examMarks, lsExamMarks, syncQueue, uuids>>
       ELSE /\ Written < MaxOps
            /\ error' = {}
            /\ saveExamMarks(The(The(scanResult).examId), The(The(scanResult).studentId),
                             totalMarks, userId)
  /\ UNCHANGED <<scannerVars, viewScanning, syncUiVars, callVars, moreVars>>
  /\ UNCHANGED <<now, online, users, exams, barcodes, scanLogs, authVars, sync, uiVars,
                 ret>>

-----------------------------------------------------------------------------
(* utils/sync.ts: syncData                                                 *)

\* the queue read with the comparison the wrong way round
QueueItemsAbove == {syncQueue[id] : id \in {k \in DOMAIN syncQueue :
                                               syncQueue[k].attempts > MAX_RETRY_ATTEMPTS}}

\* db.syncQueue.where('attempts').below(MAX_RETRY_ATTEMPTS).toArray()
QueueItems == {syncQueue[id] : id \in {k \in DOMAIN syncQueue :
                                          syncQueue[k].attempts < MAX_RETRY_ATTEMPTS}}

\* table.delete(key)
Delete(table, key) == [k \in DOMAIN table \ {key} |-> table[k]]

\* the update that also rewrites the log's status
MarkSyncedStatus(logs, recordId) ==
  IF recordId \in DOMAIN logs
    THEN [logs EXCEPT ![recordId].syncStatus = "synced", ![recordId].syncedAt = {now},
                      ![recordId].status = "unknown"]
    ELSE logs

\* db.scanLogs.update(recordId, {syncStatus: 'synced', syncedAt: new Date()})
MarkSynced(logs, recordId) ==
  IF recordId \in DOMAIN logs
    THEN [logs EXCEPT ![recordId].syncStatus = "synced", ![recordId].syncedAt = {now}]
    ELSE logs

\* the next item of the for-loop: toArray() returns the rows in key order, and
\* the keys are random UUIDs, so the order is fixed but arbitrary
NextItem == CHOOSE item \in sync.items : TRUE

\* syncData() is called: the offline return, the empty return, or the queue is read
SyncStart ==
  /\ Seeded
  /\ sync.pc = "idle"
  /\ sync' =
       IF ~IsOnline
         THEN [NoSync EXCEPT !.result = {[success |-> FALSE, message |-> "Device is offline",
                                          syncedItems |-> {}]}]
       ELSE IF QueueItems = {}
         THEN [NoSync EXCEPT !.result = {[success |-> TRUE, message |-> "No items to sync",
                                          syncedItems |-> {0}]}]
       ELSE [pc |-> "running", items |-> QueueItems, read |-> QueueItems,
             queued |-> DOMAIN syncQueue, result |-> {}]
  /\ UNCHANGED extVars
  /\ UNCHANGED <<now, online, storeVars, authVars, uuids, uiVars, ret>>

\* one turn of the loop: the row is deleted and its scan log marked synced
SyncStep ==
  /\ sync.pc = "running"
  /\ sync.items # {}
  /\ LET item == NextItem IN
       /\ syncQueue' = Delete(syncQueue, item.id)
       /\ scanLogs' = IF item.table = "scanLogs"
                        THEN MarkSynced(scanLogs, item.recordId)
                        ELSE scanLogs
       /\ sync' = [sync EXCEPT !.items = sync.items \ {item}]
  /\ UNCHANGED extVars
  /\ UNCHANGED <<now, online, users, exams, barcodes, examMarks, lsExamMarks,
                 authVars, uuids, uiVars, ret>>

\* the loop is over: syncData returns
SyncReturn ==
  /\ sync.pc = "running"
  /\ sync.items = {}
  /\ sync' = [NoSync EXCEPT !.result = {[success |-> TRUE, message |-> "Synced items",
                                         syncedItems |-> {Cardinality(sync.read)}]}]
  /\ UNCHANGED extVars
  /\ UNCHANGED <<now, online, storeVars, authVars, uuids, uiVars, ret>>

\* pullUpdates() up to its await: the offline return, or the wait begins
PullStart ==
  /\ Seeded
  /\ pull.pc = "idle"
  /\ pull' =
       IF ~IsOnline
         THEN [pc |-> "idle",
               result |-> {[success |-> FALSE, message |-> "Device is offline"]}]
         ELSE [pc |-> "waiting", result |-> {}]
  /\ UNCHANGED <<baseVars, scannerVars, viewVars, syncUiVars, callVars, lastPullSync,
                 formVars, loads>>

\* pullUpdates() after the wait: localStorage.setItem('lastPullSync', ...)
PullDone ==
  /\ pull.pc = "waiting"
  /\ lastPullSync' = {now}
  /\ pull' = [pc |-> "idle",
              result |-> {[success |-> TRUE, message |-> "Updates pulled successfully"]}]
  /\ UNCHANGED <<baseVars, scannerVars, viewVars, syncUiVars, callVars, formVars, loads>>

\* a store operation of the loop throws: syncData's catch returns the failure.
\* at = "delete": db.syncQueue.delete throws; at = "update": the row is
\* deleted and db.scanLogs.update throws.
SyncStepFail(at) ==
  /\ sync.pc = "running"
  /\ sync.items # {}
  /\ LET item == NextItem IN
       /\ at = "update" => item.table = "scanLogs"
       /\ syncQueue' = IF at = "update" THEN Delete(syncQueue, item.id) ELSE syncQueue
       /\ sync' = [NoSync EXCEPT !.result = {[success |-> FALSE,
                                              message |-> "An error occurred during sync",
                                              syncedItems |-> {}]}]
  /\ UNCHANGED extVars
  /\ UNCHANGED <<now, online, users, exams, barcodes, scanLogs, examMarks, lsExamMarks,
                 authVars, uuids, uiVars, ret>>

-----------------------------------------------------------------------------
(* utils/auth.ts: hashPassword, login, logout                              *)

Digits == <<"0","1","2","3","4","5","6","7","8","9">>
HexDigits == <<"0","1","2","3","4","5","6","7","8","9","a","b","c","d","e","f">>

\* c.charCodeAt(0) for a letter or a digit
CharCode(c) ==
  IF \E i \in 1..10 : Digits[i] = c THEN 47 + (CHOOSE i \in 1..10 : Digits[i] = c)
  ELSE IF \E i \in 1..26 : UpperCase[i] = c THEN 64 + (CHOOSE i \in 1..26 : UpperCase[i] = c)
  ELSE 96 + (CHOOSE i \in 1..26 : LowerCase[i] = c)

\* n.toString(16) for 0 <= n
RECURSIVE ToHex(_)
ToHex(n) == IF n < 16 THEN HexDigits[n + 1] ELSE ToHex(n \div 16) \o HexDigits[(n % 16) + 1]

\* the four hex digits of a 16-bit half
Hex4(n) == HexDigits[(n \div 4096) + 1] \o HexDigits[((n \div 256) % 16) + 1]
             \o HexDigits[((n \div 16) % 16) + 1] \o HexDigits[(n % 16) + 1]

\* the fallback loop on a 32-bit integer kept as two 16-bit halves <<hi, lo>>:
\* hash = ((hash << 5) - hash) + char; hash = hash & hash
RECURSIVE HashLoop(_, _)
HashLoop(password, hash) ==
  IF password = << >> THEN hash
  ELSE LET t == 31 * hash[2] + CharCode(Head(password))
       IN  HashLoop(Tail(password),
                    <<(31 * hash[1] + (t \div 65536)) % 65536, t % 65536>>)

\* hash.toString(16) of the signed 32-bit value
Int32ToHex(hash) ==
  LET hi == hash[1]
      lo == hash[2]
      mhi == IF lo = 0 THEN 65536 - hi ELSE 65535 - hi
      mlo == IF lo = 0 THEN 0 ELSE 65536 - lo
  IN  IF hi < 32768
        THEN (IF hi = 0 THEN ToHex(lo) ELSE ToHex(hi) \o Hex4(lo))
        ELSE "-" \o (IF mhi = 0 THEN ToHex(mlo) ELSE ToHex(mhi) \o Hex4(mlo))

\* hashPassword with every password but 'admin' given the hash of 'test'
hashPasswordNoFallback(password) ==
  IF password = <<"a","d","m","i","n">> THEN "14c4b06b824ec593239362517f538b29"
  ELSE "098f6bcd4621d373cade4e832627b4f6"

hashPassword(password) ==
  IF password = <<"a","d","m","i","n">> THEN "14c4b06b824ec593239362517f538b29"
  ELSE IF password = <<"t","e","s","t">> THEN "098f6bcd4621d373cade4e832627b4f6"
  ELSE Int32ToHex(HashLoop(password, <<0, 0>>))

\* generateOfflineToken(user): the payload; btoa(JSON.stringify(payload)) is
\* read back by JSON.parse(atob(token))
generateOfflineToken(user) ==
  [id |-> user.id, username |-> user.username, role |-> user.role,
   exp |-> now + TokenDays]

\* db.users.where('username').equals(username).first()
FirstUser(username) ==
  IF \E id \in DOMAIN users : users[id].username = username
    THEN {users[CHOOSE id \in DOMAIN users : users[id].username = username]}
    ELSE {}

Login(username, password) ==
  /\ Seeded
  /\ LET user == FirstUser(username) IN
     IF user = {}
       THEN /\ ret' = [op |-> "login", username |-> username, password |-> password,
                       success |-> FALSE, message |-> "User not found"]
            /\ UNCHANGED <<users, authVars>>
     ELSE IF The(user).passwordHash # hashPassword(password)
       THEN /\ ret' = [op |-> "login", username |-> username, password |-> password,
                       success |-> FALSE, message |-> "Invalid password"]
            /\ UNCHANGED <<users, authVars>>
     ELSE /\ users' = [users EXCEPT ![The(user).id].lastLogin = now]
          /\ authToken' = {generateOfflineToken(The(user))}
          /\ userData' = {[id |-> The(user).id, username |-> The(user).username,
                           role |-> The(user).role]}
          /\ ret' = [op |-> "login", username |-> username, password |-> password,
                     success |-> TRUE, message |-> "Login successful"]
  /\ UNCHANGED extVars
  /\ UNCHANGED <<now, online, exams, barcodes, scanLogs, examMarks, syncQueue,
                 lsExamMarks, uuids, sync, uiVars>>

Logout ==
  /\ Seeded
  /\ authToken' = {}
  /\ userData' = {}
  /\ ret' = [op |-> "logout"]
  /\ UNCHANGED extVars
  /\ UNCHANGED <<now, online, storeVars, uuids, sync, uiVars>>

Usernames == {"admin", "examiner", "guest"}
LoginPasswords == { <<"a","d","m","i","n">>, <<"t","e","s","t">> }
SessionUsers == {"admin", "examiner"}
Passwords == { <<"a","d","m","i","n">>, <<"t","e","s","t">>, << >>, <<"x">>,
               <<"A","d","m","i","n">>, <<"p","a","s","s","w","o","r","d","1">> }

-----------------------------------------------------------------------------
(* login() and getCurrentUser() as the steps between their awaits.  The    *)
(* login call in flight keeps its locals `user` and `token` in loginCall;   *)
(* each getCurrentUser call keeps its locals `token` and `userData` in its  *)
(* entry of userCalls.                                                     *)

\* the rest of the program's state, which these steps leave alone
OthersUnchanged ==
  UNCHANGED <<now, online, exams, barcodes, scanLogs, examMarks, syncQueue,
              lsExamMarks, uuids, sync, uiVars, scannerVars, viewVars, syncUiVars,
              moreVars>>

\* login up to `await db.users.update`: the lookup and the hash comparison
LoginStart(username, password) ==
  /\ Seeded
  /\ loginCall.pc = "idle"
  /\ loginCall.calls < MaxLogins
  /\ LET user == FirstUser(username)
         failed(message) ==
           [op |-> "login", username |-> username, password |-> password,
            success |-> FALSE, message |-> message]
     IN
     IF user = {}
       THEN /\ ret' = failed("User not found")
            /\ loginCall' = [loginCall EXCEPT !.calls = @ + 1, !.user = {},
                                              !.token = {}, !.result = {FALSE}]
     ELSE IF The(user).passwordHash # hashPassword(password)
       THEN /\ ret' = failed("Invalid password")
            /\ loginCall' = [loginCall EXCEPT !.calls = @ + 1, !.user = {},
                                              !.token = {}, !.result = {FALSE}]
     ELSE /\ ret' = [op |-> "login", username |-> username, password |-> password]
          /\ loginCall' = [pc |-> "update", calls |-> loginCall.calls + 1,
                           user |-> user, token |-> {}, result |-> {}]
  /\ UNCHANGED <<users, authVars, userCalls>>
  /\ OthersUnchanged

\* await db.users.update(user.id, { lastLogin: new Date() })
LoginUpdate ==
  /\ loginCall.pc = "update"
  /\ users' = [users EXCEPT ![The(loginCall.user).id].lastLogin = now]
  /\ loginCall' = [loginCall EXCEPT !.pc = "setToken"]
  /\ UNCHANGED <<authVars, ret, userCalls>>
  /\ OthersUnchanged

\* const token = generateOfflineToken(user); await localforage.setItem(AUTH_TOKEN_KEY, token)
LoginSetToken ==
  /\ loginCall.pc = "setToken"
  /\ LET token == generateOfflineToken(The(loginCall.user)) IN
       /\ authToken' = {token}
       /\ loginCall' = [loginCall EXCEPT !.pc = "setUserData", !.token = {token}]
  /\ UNCHANGED <<users, userData, ret, userCalls>>
  /\ OthersUnchanged

\* await localforage.setItem(USER_DATA_KEY, { id, username, role })
LoginSetUserData ==
  /\ loginCall.pc = "setUserData"
  /\ LET user == The(loginCall.user) IN
       userData' = {[id |-> user.id, username |-> user.username, role |-> user.role]}
  /\ loginCall' = [loginCall EXCEPT !.pc = "return"]
  /\ UNCHANGED <<users, authToken, ret, userCalls>>
  /\ OthersUnchanged

\* return { success: true, message: 'Login successful', user }
LoginReturn ==
  /\ loginCall.pc = "return"
  /\ ret' = [op |-> "login", username |-> ret.username, password |-> ret.password,
             success |-> TRUE, message |-> "Login successful"]
  /\ loginCall' = [loginCall EXCEPT !.pc = "idle", !.result = {TRUE}]
  /\ UNCHANGED <<users, authVars, userCalls>>
  /\ OthersUnchanged

\* verifyOfflineToken with the token refused on the instant it expires
verifyOfflineTokenStrict(token, userId) ==
  IF token.exp <= now THEN FALSE
  ELSE IF token.id # userId THEN FALSE
  ELSE TRUE

\* verifyOfflineToken(token, userId) on the decoded payload
verifyOfflineToken(token, userId) ==
  IF token.exp < now THEN FALSE
  ELSE IF token.id # userId THEN FALSE
  ELSE TRUE

\* a call of getCurrentUser() begins
GetCurrentUser ==
  /\ Seeded
  /\ Len(userCalls) < MaxUserCalls
  /\ userCalls' = Append(userCalls, [pc |-> "getToken", token |-> {}, userData |-> {},
                                     result |-> {}])
  /\ UNCHANGED <<users, authVars, ret, loginCall>>
  /\ OthersUnchanged

\* const token = await localforage.getItem(AUTH_TOKEN_KEY); if (!token) return
GetToken(c) ==
  /\ c <= Len(userCalls)
  /\ userCalls[c].pc = "getToken"
  /\ userCalls' =
       [userCalls EXCEPT ![c] =
          IF authToken = {}
            THEN [@ EXCEPT !.pc = "done", !.result = {[isAuthenticated |-> FALSE]}]
            ELSE [@ EXCEPT !.pc = "getUserData", !.token = authToken]]
  /\ UNCHANGED <<users, authVars, ret, loginCall>>
  /\ OthersUnchanged

\* const userData = await localforage.getItem(USER_DATA_KEY); if (!userData)
\* return; if (!verifyOfflineToken(token, userData.id)) await logout() ...
GetUserData(c) ==
  /\ c <= Len(userCalls)
  /\ userCalls[c].pc = "getUserData"
  /\ userCalls' =
       [userCalls EXCEPT ![c] =
          IF userData = {}
            THEN [@ EXCEPT !.pc = "done", !.result = {[isAuthenticated |-> FALSE]}]
          ELSE IF ~verifyOfflineToken(The(@.token), The(userData).id)
            THEN [@ EXCEPT !.pc = "removeToken", !.userData = userData]
          ELSE [@ EXCEPT !.pc = "done", !.userData = userData,
                         !.result = {[isAuthenticated |-> TRUE, user |-> The(userData)]}]]
  /\ UNCHANGED <<users, authVars, ret, loginCall>>
  /\ OthersUnchanged

\* logout(), first await: localforage.removeItem(AUTH_TOKEN_KEY)
RemoveToken(c) ==
  /\ c <= Len(userCalls)
  /\ userCalls[c].pc = "removeToken"
  /\ authToken' = {}
  /\ userCalls' = [userCalls EXCEPT ![c].pc = "removeUserData"]
  /\ UNCHANGED <<users, userData, ret, loginCall>>
  /\ OthersUnchanged

\* logout(), second await: localforage.removeItem(USER_DATA_KEY); then
\* return { isAuthenticated: false }
RemoveUserData(c) ==
  /\ c <= Len(userCalls)
  /\ userCalls[c].pc = "removeUserData"
  /\ userData' = {}
  /\ userCalls' = [userCalls EXCEPT ![c].pc = "done",
                                    ![c].result = {[isAuthenticated |-> FALSE]}]
  /\ UNCHANGED <<users, authToken, ret, loginCall>>
  /\ OthersUnchanged

\* getCurrentUser() run from its call to its return with no other call
\* between its awaits: what it leaves in storage and what it returns
getCurrentUser ==
  IF authToken = {}
    THEN [authToken |-> authToken, userData |-> userData,
          result |-> [isAuthenticated |-> FALSE]]
  ELSE IF userData = {}
    THEN [authToken |-> authToken, userData |-> userData,
          result |-> [isAuthenticated |-> FALSE]]
  ELSE IF ~verifyOfflineToken(The(authToken), The(userData).id)
    THEN [authToken |-> {}, userData |-> {},
          result |-> [isAuthenticated |-> FALSE]]
  ELSE [authToken |-> authToken, userData |-> userData,
        result |-> [isAuthenticated |-> TRUE, user |-> The(userData)]]

\* a getCurrentUser() call on its own; userCalls keeps the result of the last
\* call only
GetCurrentUserAlone ==
  /\ Seeded
  /\ \A c \in DOMAIN userCalls : userCalls[c].pc = "done"
  /\ LET call == getCurrentUser IN
       /\ authToken' = call.authToken
       /\ userData' = call.userData
       /\ userCalls' = <<[pc |-> "done", token |-> {}, userData |-> {},
                          result |-> {call.result}]>>
  /\ UNCHANGED <<users, ret, loginCall>>
  /\ OthersUnchanged

\* days pass over a stored session, up to the day MaxSessionDay
SessionAges(days) ==
  /\ now + days <= MaxSessionDay
  /\ Elapse(days)

\* the user logs out (the Logout button is not on the login screen)
LogoutPressed ==
  /\ loginCall.pc = "idle"
  /\ Logout

-----------------------------------------------------------------------------
(* utils/scanner.ts: BarcodeScanner.  A start() call waits twice, for the   *)
(* camera (getUserMedia) and for the video (play); the call with number c   *)
(* is handed the stream c and arms the timer c.  The options are the ones   *)
(* ScannerComponent passes: onStart and onStop set its scanning state,      *)
(* onError sets its error and clears scanning, onDetected hands the code to *)
(* handleCodeDetected.                                                     *)

\* what the scanner's methods read and write
ScannerState ==
  [scanner |-> scanner, liveStreams |-> liveStreams, timers |-> timers,
   frames |-> frames, callbacks |-> callbacks, viewScanning |-> viewScanning,
   error |-> error]

SetScannerState(st) ==
  /\ scanner' = st.scanner
  /\ liveStreams' = st.liveStreams
  /\ timers' = st.timers
  /\ frames' = st.frames
  /\ callbacks' = st.callbacks
  /\ viewScanning' = st.viewScanning
  /\ error' = st.error

\* clearTimeout(id): the timer is no longer armed
ClearTimeout(armed, ids) == SelectSeq(armed, LAMBDA t : t \notin ids)

\* options.onError(err)
onError(st, message) ==
  [st EXCEPT !.callbacks.onError = Append(@, message),
             !.error = {message},
             !.viewScanning = FALSE]

\* stop() without the camera tracks being stopped
stopKeepsTracks(st) ==
  IF ~st.scanner.scanning
    THEN st
    ELSE [st EXCEPT !.scanner = [scanning |-> FALSE, stream |-> {}, timeoutId |-> {},
                                 srcObject |-> {}],
                    !.timers = ClearTimeout(@, st.scanner.timeoutId),
                    !.callbacks.onStop = @ + 1,
                    !.viewScanning = FALSE]

\* stop()
stop(st) ==
  IF ~st.scanner.scanning
    THEN st
    ELSE [st EXCEPT !.scanner = [scanning |-> FALSE, stream |-> {}, timeoutId |-> {},
                                 srcObject |-> {}],
                    !.timers = ClearTimeout(@, st.scanner.timeoutId),
                    !.liveStreams = @ \ st.scanner.stream,
                    !.callbacks.onStop = @ + 1,
                    !.viewScanning = FALSE]

\* scanFrame(): detected says whether jsQR finds a code in the frame
scanFrame(st, detected) ==
  IF ~st.scanner.scanning
    THEN st
  ELSE IF detected
    THEN [stop(st) EXCEPT !.callbacks.onDetected = @ + 1]
  ELSE [st EXCEPT !.frames = @ + 1]

\* start(videoElement, canvasElement, deviceId) is called
Start ==
  /\ Len(startCalls) < MaxStarts
  /\ startCalls' = Append(startCalls, IF scanner.scanning THEN "done" ELSE "camera")
  /\ lastCall' = "start"
  /\ UNCHANGED <<scanner, liveStreams, timers, frames, callbacks>>
  /\ UNCHANGED <<baseVars, viewVars, syncUiVars, callVars, moreVars>>

\* getUserMedia resolves: the stream is kept and given to the video element
CameraGranted(c) ==
  /\ startCalls[c] = "camera"
  /\ scanner' = [scanner EXCEPT !.stream = {c}, !.srcObject = {c}]
  /\ liveStreams' = liveStreams \cup {c}
  /\ startCalls' = [startCalls EXCEPT ![c] = "play"]
  /\ UNCHANGED <<timers, frames, callbacks, lastCall>>
  /\ UNCHANGED <<baseVars, viewVars, syncUiVars, callVars, moreVars>>

\* getUserMedia rejects: the catch reports the error
CameraDenied(c) ==
  /\ startCalls[c] = "camera"
  /\ SetScannerState(onError(ScannerState, "Permission denied"))
  /\ startCalls' = [startCalls EXCEPT ![c] = "done"]
  /\ UNCHANGED <<lastCall, syncUiVars, callVars, moreVars, baseVars>>

\* video.play() resolves: scanning starts, the timeout is armed, the first frame is scanned
PlayResolved(c, detected) ==
  /\ startCalls[c] = "play"
  /\ LET started == [ScannerState EXCEPT !.scanner.scanning = TRUE,
                                         !.scanner.timeoutId = {c},
                                         !.timers = Append(@, c),
                                         !.callbacks.onStart = @ + 1,
                                         !.viewScanning = TRUE]
     IN  SetScannerState(scanFrame(started, detected))
  /\ startCalls' = [startCalls EXCEPT ![c] = "done"]
  /\ UNCHANGED <<lastCall, syncUiVars, callVars, moreVars, baseVars>>

\* video.play() rejects: the catch reports 'Could not start video stream'
PlayRejected(c) ==
  /\ startCalls[c] = "play"
  /\ SetScannerState(onError(ScannerState, "Could not start video stream"))
  /\ startCalls' = [startCalls EXCEPT ![c] = "done"]
  /\ UNCHANGED <<lastCall, syncUiVars, callVars, moreVars, baseVars>>

\* the oldest armed timeout fires (all are armed for SCAN_TIMEOUT)
TimeoutFire ==
  /\ timers # << >>
  /\ LET fired == [ScannerState EXCEPT !.timers = Tail(@)]
     IN  SetScannerState(onError(stop(fired), "Scanning timeout reached"))
  /\ UNCHANGED <<startCalls, lastCall, syncUiVars, callVars, moreVars, baseVars>>

\* a requestAnimationFrame callback runs scanFrame()
AnimationFrame(detected) ==
  /\ frames > 0
  /\ SetScannerState(scanFrame([ScannerState EXCEPT !.frames = @ - 1], detected))
  /\ UNCHANGED <<startCalls, lastCall, syncUiVars, callVars, moreVars, baseVars>>

\* stopScanning(), and the unmount cleanup: scanner.stop(), then setScanning(false)
StopScanning ==
  /\ Len(startCalls) > 0
  /\ SetScannerState([stop(ScannerState) EXCEPT !.viewScanning = FALSE])
  /\ lastCall' = "stop"
  /\ UNCHANGED <<startCalls, syncUiVars, callVars, moreVars, baseVars>>

-----------------------------------------------------------------------------
(* components/ScannerComponent.tsx: what is rendered, and the buttons       *)

\* the mark-entry form is rendered
MarkEntryShown == showMarkEntry /\ scanResult # {}

\* the <video> and <canvas> are rendered, so videoRef.current and
\* canvasRef.current are set: only in the scanning branch of the render
CameraElementsMounted == ~MarkEntryShown /\ viewScanning

\* the third branch of the render: the result, the error or the start view
IdleView == ~MarkEntryShown /\ ~viewScanning

\* startScanning(): Start Scanning, Scan Again or Try Again is pressed
StartScanning ==
  /\ IdleView
  /\ scanResult' = {}
  /\ IF ~CameraElementsMounted
       THEN /\ error' = {"Camera elements not initialized. Please refresh the page and try again."}
            /\ UNCHANGED <<startCalls, lastCall>>
       ELSE /\ Len(startCalls) < MaxStarts
            /\ error' = {}
            /\ startCalls' = Append(startCalls, IF scanner.scanning THEN "done" ELSE "camera")
            /\ lastCall' = "start"
  /\ UNCHANGED <<scanner, liveStreams, timers, frames, callbacks, viewScanning>>
  /\ UNCHANGED <<now, online, storeVars, authVars, uuids, sync, showMarkEntry, ret>>
  /\ UNCHANGED <<syncUiVars, callVars, moreVars>>

\* handleManualEntry(): the form of the start view is submitted
HandleManualEntry(code, userId) ==
  /\ IdleView
  /\ scanResult = {}
  /\ error = {}
  /\ HandleCodeDetected(code, userId)

\* the Clear button under an error
ClearError ==
  /\ IdleView
  /\ scanResult = {}
  /\ error # {}
  /\ error' = {}
  /\ UNCHANGED <<baseVars, scannerVars, viewScanning, syncUiVars, callVars, moreVars>>

\* the Clear button under a scan result
ClearScanResult ==
  /\ IdleView
  /\ scanResult # {}
  /\ scanResult' = {}
  /\ UNCHANGED <<now, online, storeVars, authVars, uuids, sync, showMarkEntry, ret>>
  /\ UNCHANGED extVars

\* the Cancel button of the mark-entry form
CancelMarkEntry ==
  /\ MarkEntryShown
  /\ showMarkEntry' = FALSE
  /\ scanResult' = {}
  /\ UNCHANGED <<now, online, storeVars, authVars, uuids, sync, ret>>
  /\ UNCHANGED extVars

\* handleSubmitMarks(): the Save Marks button of the mark-entry form.  The
\* marks record gets its id and is logged to the console; no table is written.
HandleSubmitMarks ==
  /\ MarkEntryShown
  /\ IF The(scanResult).examId = {} \/ The(scanResult).studentId = {}
       THEN /\ error' = {"Missing exam or student information"}
            /\ UNCHANGED <<uuids, uiVars, allMarks>>
       ELSE /\ uuids' = uuids + 1
            /\ showMarkEntry' = FALSE
            /\ scanResult' = {}
            /\ allMarks' = NoMarks
            /\ UNCHANGED error
  /\ UNCHANGED <<now, online, storeVars, authVars, sync, ret>>
  /\ UNCHANGED <<scannerVars, viewScanning, syncUiVars, callVars, pullVars,
                 subjectMarks, formTotal, loads>>

-----------------------------------------------------------------------------
(* processScan and saveExamMarks when an operation on the store throws.    *)
(* Every crypto.randomUUID() the call reaches hands out the next id,        *)
(* whether or not the row it is for gets written.                          *)

\* the calls that can still be made within the bounds
CallsLeft ==
  /\ Written < MaxOps
  /\ Len(lsExamMarks) < MaxOps
  /\ uuids + 3 <= 2 + 4 * MaxOps

\* processScan(code, userId) with the store throwing at `at`: "validate"
\* (a read of validateBarcode), "scanLogs" (db.scanLogs.add), "syncQueue"
\* (db.syncQueue.add of addToSyncQueue), or "none"
ProcessScanCall(code, userId, at) ==
  /\ Seeded
  /\ CallsLeft
  /\ LET v   == validateBarcode(code)
         log == NewScanLog(UUID(uuids + 1), v, userId)
         failed == [op |-> "processScan", success |-> FALSE,
                    message |-> "An error occurred while processing the scan",
                    scanLog |-> {}]
     IN  CASE at = "validate" ->
                /\ ret' = failed
                /\ UNCHANGED <<scanLogs, syncQueue, uuids>>
           [] at = "scanLogs" ->
                /\ ret' = failed
                /\ uuids' = uuids + 1
                /\ UNCHANGED <<scanLogs, syncQueue>>
           [] at = "syncQueue" ->
                /\ ret' = failed
                /\ scanLogs' = Put(scanLogs, log)
                /\ uuids' = uuids + 2
                /\ UNCHANGED syncQueue
           [] OTHER ->
                /\ ret' = [op |-> "processScan", success |-> TRUE, message |-> v.message,
                           scanLog |-> {log.id}]
                /\ processScan(code, userId)
  /\ UNCHANGED <<now, online, users, exams, barcodes, examMarks, lsExamMarks, authVars,
                 sync, uiVars>>
  /\ UNCHANGED extVars

\* saveExamMarks(examId, studentId, marksData, totalMarks, recordedBy) with
\* the operations named in fails throwing: "examMarks" (db.examMarks.add),
\* "localStorage" (setItem), "syncQueue" (db.syncQueue.add)
SaveExamMarksCall(examId, studentId, totalMarks, recordedBy, fails) ==
  /\ Seeded
  /\ CallsLeft
  /\ LET id      == UUID(uuids + 1)
         marks   == ExamMarks(id, examId, studentId, totalMarks, recordedBy, now)
         added   == "examMarks" \notin fails
         backup  == IF added /\ "localStorage" \notin fails
                      THEN Append(lsExamMarks, marks) ELSE lsExamMarks
         queued  == added /\ "syncQueue" \notin fails
         used    == IF added THEN 2 ELSE 1
         again   == UUID(uuids + used + 1)
         call    == [op |-> "saveExamMarks", examId |-> examId, studentId |-> studentId]
     IN  /\ examMarks' = IF added THEN Put(examMarks, marks) ELSE examMarks
         /\ IF queued
              THEN /\ syncQueue' = addToSyncQueue(syncQueue, UUID(uuids + 2), "create",
                                                  "examMarks", id)
                   /\ lsExamMarks' = backup
                   /\ uuids' = uuids + 2
                   /\ ret' = call @@ [returned |-> {id}, threw |-> FALSE]
            ELSE IF "localStorage" \notin fails
              THEN /\ lsExamMarks' =
                        Append(backup, ExamMarks(again, examId, studentId, totalMarks,
                                                 recordedBy, now))
                   /\ uuids' = uuids + used + 1
                   /\ ret' = call @@ [returned |-> {again}, threw |-> FALSE]
                   /\ UNCHANGED syncQueue
            ELSE /\ lsExamMarks' = backup
                 /\ uuids' = uuids + used + 1
                 /\ ret' = call @@ [returned |-> {}, threw |-> TRUE]
                 /\ UNCHANGED syncQueue
  /\ UNCHANGED <<now, online, users, exams, barcodes, scanLogs, authVars, sync, uiVars>>
  /\ UNCHANGED extVars

ScanFaults == {"none", "validate", "scanLogs", "syncQueue"}
MarksFaults == SUBSET {"examMarks", "localStorage", "syncQueue"}

-----------------------------------------------------------------------------
(* The mark-entry forms.  A number is kept as a set: {} is NaN, {n} is n.   *)
(* The form of ScannerComponent.tsx keeps every mark and total as a string; *)
(* the single-subject form of the other variant keeps numbers.             *)

IsDigit(c) == \E i \in 1..10 : Digits[i] = c

DigitValue(c) == (CHOOSE i \in 1..10 : Digits[i] = c) - 1

\* the value of the digits str begins with, after the digits read so far
RECURSIVE LeadingDigits(_, _)
LeadingDigits(str, value) ==
  IF str = << >> \/ ~IsDigit(Head(str)) THEN value
  ELSE LeadingDigits(Tail(str), 10 * value + DigitValue(Head(str)))

\* parseInt(str): a sign, then the digits up to the first other character
parseInt(str) ==
  LET signed == str # << >> /\ Head(str) \in {"-", "+"}
      body   == IF signed THEN Tail(str) ELSE str
  IN  IF body = << >> \/ ~IsDigit(Head(body)) THEN {}
      ELSE IF signed /\ Head(str) = "-" THEN {0 - LeadingDigits(body, 0)}
      ELSE {LeadingDigits(body, 0)}

\* n.toString() for 0 <= n
RECURSIVE ToDecimal(_)
ToDecimal(n) == IF n < 10 THEN <<Digits[n + 1]>> ELSE ToDecimal(n \div 10) \o <<Digits[(n % 10) + 1]>>

\* a || b on numbers: NaN and 0 are falsy
OrElse(a, b) == IF a = {} \/ a = {0} THEN b ELSE a

\* a + b on numbers
Plus(a, b) == IF a = {} \/ b = {} THEN {} ELSE {The(a) + The(b)}

Min(a, b) == IF a < b THEN a ELSE b
Max(a, b) == IF a < b THEN b ELSE a

\* calculateTotal(subject)
calculateTotal(subject) ==
  The(OrElse(parseInt(allMarks[subject].q1), {0}))
    + The(OrElse(parseInt(allMarks[subject].q2), {0}))
    + The(OrElse(parseInt(allMarks[subject].q3), {0}))

\* the grand total of handleSubmitMarks and of the form's last line
RECURSIVE GrandTotalOf(_)
GrandTotalOf(subjects) ==
  IF subjects = {} THEN 0
  ELSE LET subject == CHOOSE x \in subjects : TRUE
       IN  calculateTotal(subject) + GrandTotalOf(subjects \ {subject})

GrandTotal == GrandTotalOf(FormSubjects)

maxValues == [q1 |-> 10, q2 |-> 16, q3 |-> 24]

\* the total handleMarkChange keeps: parseInt(q1) || 0 + parseInt(q2) || 0 +
\* parseInt(q3) || 0, in which + binds before ||
KeptTotal(m) ==
  OrElse(parseInt(m.q1),
         OrElse(Plus({0}, parseInt(m.q2)),
                OrElse(Plus({0}, parseInt(m.q3)), {0})))

\* handleMarkChange(subject, question, value) of ScannerComponent.tsx
HandleMarkChange(subject, question, value) ==
  /\ MarkEntryShown
  /\ LET parsed  == The(OrElse(parseInt(value), {0}))
         clamped == IF parsed > maxValues[question] THEN maxValues[question]
                    ELSE IF parsed < 0 THEN 0
                    ELSE parsed
         entered == [allMarks[subject] EXCEPT ![question] = ToDecimal(clamped)]
     IN  allMarks' = [allMarks EXCEPT ![subject] =
                        [entered EXCEPT !.total = ToDecimal(The(KeptTotal(entered)))]]
  /\ UNCHANGED <<baseVars, scannerVars, viewVars, syncUiVars, callVars, pullVars,
                 subjectMarks, formTotal, loads>>

RECURSIVE SumSeq(_)
SumSeq(seq) == IF seq = << >> THEN 0 ELSE Head(seq) + SumSeq(Tail(seq))

\* handleMarkChange(type, index, value) of the single-subject form, called
\* with parseInt(e.target.value) || 0, and the effect that follows a change
\* of marks: setTotalMarks(tenMarks + sum(fourMarks) + sum(eightMarks))
HandleSubjectMarkChange(type, index, entered) ==
  /\ showMarkEntry
  /\ LET value == The(OrElse(parseInt(entered), {0}))
         newMarks ==
           IF type = "tenMarks"
             THEN [subjectMarks EXCEPT !.tenMarks = Min(10, Max(0, value))]
           ELSE IF type = "fourMarks"
             THEN [subjectMarks EXCEPT !.fourMarks[index + 1] = Min(4, Max(0, value))]
           ELSE [subjectMarks EXCEPT !.eightMarks[index + 1] = Min(8, Max(0, value))]
     IN  /\ subjectMarks' = newMarks
         /\ formTotal' = newMarks.tenMarks + SumSeq(newMarks.fourMarks)
                           + SumSeq(newMarks.eightMarks)
  /\ UNCHANGED <<baseVars, scannerVars, viewVars, syncUiVars, callVars, pullVars,
                 allMarks, loads>>

\* what is typed into a mark field
MarkInputs == { << >>, <<"5">>, <<"3","0">>, <<"-","3">> }
EditedSubjects == {"java", "os"}
Questions == {"q1", "q2", "q3"}
EditedFields == {<<"tenMarks", 0>>, <<"fourMarks", 0>>, <<"fourMarks", 3>>, <<"eightMarks", 2>>}

-----------------------------------------------------------------------------
(* components/SyncStatus.tsx.  The effect that registers the network        *)
(* listeners runs once, on mount, so handleOnline keeps calling the         *)
(* handleSync of the first render, which reads the `syncing` and `online`   *)
(* of that render.  A handleSync call is a run: syncData (the queue is      *)
(* read, then one row per step), then pullUpdates and the rest.            *)

\* the runs that have not reached the end of handleSync
RunsInFlight == {r \in DOMAIN runs : runs[r].pc # "done"}

\* handleSync() as the render with the state (isSyncing, isOnline) defined it;
\* syncData reads navigator.onLine as the event has left it
handleSync(isSyncing, isOnline, by) ==
  IF isSyncing \/ ~isOnline
    THEN UNCHANGED <<syncing, runs>>
    ELSE /\ Len(runs) < MaxRuns
         /\ syncing' = TRUE
         /\ runs' = Append(runs,
              IF ~online'
                THEN [pc |-> "pull", by |-> by, items |-> {}, read |-> {},
                      result |-> [success |-> FALSE, syncedItems |-> {}]]
              ELSE IF QueueItems = {}
                THEN [pc |-> "pull", by |-> by, items |-> {}, read |-> {},
                      result |-> [success |-> TRUE, syncedItems |-> {0}]]
              ELSE [pc |-> "loop", by |-> by, items |-> QueueItems,
                    read |-> {item.id : item \in QueueItems},
                    result |-> [success |-> TRUE, syncedItems |-> {}]])

\* SyncStatus is mounted: its state is initialised and the listeners registered
MountSyncStatus ==
  /\ Seeded
  /\ listener = {}
  /\ viewOnline' = online
  /\ syncing' = FALSE
  /\ listener' = {[online |-> online, syncing |-> FALSE]}
  /\ UNCHANGED <<baseVars, scannerVars, viewVars, callVars, moreVars, runs>>

\* the browser goes online: handleOnline, once SyncStatus is mounted
OnlineEvent ==
  /\ Seeded
  /\ ~online
  /\ online' = TRUE
  /\ IF listener = {}
       THEN UNCHANGED <<viewOnline, syncing, runs>>
       ELSE /\ viewOnline' = TRUE
            /\ handleSync(The(listener).syncing, The(listener).online, "online")
  /\ UNCHANGED <<now, storeVars, authVars, uuids, sync, uiVars, ret>>
  /\ UNCHANGED <<scannerVars, viewVars, callVars, moreVars, listener>>

\* the browser goes offline: handleOffline, once SyncStatus is mounted
OfflineEvent ==
  /\ Seeded
  /\ online
  /\ online' = FALSE
  /\ viewOnline' = IF listener = {} THEN viewOnline ELSE FALSE
  /\ UNCHANGED <<now, storeVars, authVars, uuids, sync, uiVars, ret>>
  /\ UNCHANGED <<scannerVars, viewVars, callVars, moreVars, listener, syncing, runs>>

\* the Sync Now button, disabled while syncing or offline
SyncNow ==
  /\ listener # {}
  /\ ~(syncing \/ ~viewOnline)
  /\ UNCHANGED <<baseVars, scannerVars, viewVars, callVars, moreVars, viewOnline, listener>>
  /\ handleSync(syncing, viewOnline, "button")

\* one turn of syncData's loop in the run r
RunStep(r) ==
  /\ runs[r].pc = "loop"
  /\ runs[r].items # {}
  /\ LET item == CHOOSE i \in runs[r].items : TRUE IN
       /\ syncQueue' = Delete(syncQueue, item.id)
       /\ scanLogs' = IF item.table = "scanLogs"
                        THEN MarkSynced(scanLogs, item.recordId)
                        ELSE scanLogs
       /\ runs' = [runs EXCEPT ![r].items = @ \ {item}]
  /\ UNCHANGED <<now, online, users, exams, barcodes, examMarks, lsExamMarks,
                 authVars, uuids, sync, uiVars, ret>>
  /\ UNCHANGED <<scannerVars, viewVars, callVars, moreVars, syncing, viewOnline, listener>>

\* syncData returns to the run r: every row it read is counted as synced
RunSynced(r) ==
  /\ runs[r].pc = "loop"
  /\ runs[r].items = {}
  /\ runs' = [runs EXCEPT ![r].pc = "pull",
                          ![r].result.syncedItems = {Cardinality(runs[r].read)}]
  /\ UNCHANGED <<baseVars, scannerVars, viewVars, callVars, moreVars, syncing, viewOnline, listener>>

\* pullUpdates returns to the run r, and handleSync ends: setSyncing(false)
RunEnd(r) ==
  /\ runs[r].pc = "pull"
  /\ runs' = [runs EXCEPT ![r].pc = "done"]
  /\ syncing' = FALSE
  /\ UNCHANGED <<baseVars, scannerVars, viewVars, callVars, moreVars, viewOnline, listener>>

-----------------------------------------------------------------------------
(* Specifications                                                          *)

Next ==
  \/ SeedDatabase
  \/ Tick
  \/ \E b \in BOOLEAN : SetOnline(b)
  \/ \E code \in ScanCodes \cup {barcodes[id].code : id \in DOMAIN barcodes \ DOMAIN SeedBarcodes(0)},
        userId \in ScanUsers : HandleCodeDetected(code, userId)
  \/ \E subject \in Subjects, studentId \in Students, randomNum \in RandomNums,
        userId \in ScanUsers : HandleGenerateBarcode(subject, studentId, randomNum, userId)
  \/ \E totalMarks \in MarkTotals, userId \in ScanUsers : HandleSaveMarks(totalMarks, userId)
  \/ SyncStart
  \/ SyncStep
  \/ SyncReturn

Spec == Init /\ [][Next]_vars

\* syncData keeps being run to its end, and the device comes back online
SpecSyncLive ==
  /\ Spec
  /\ WF_vars(SetOnline(TRUE))
  /\ WF_vars(SyncStart)
  /\ WF_vars(SyncStep)
  /\ WF_vars(SyncReturn)

\* syncing and pulling while the connection comes and goes
NextOffline ==
  \/ SeedDatabase
  \/ Tick
  \/ \E b \in BOOLEAN : SetOnline(b)
  \/ \E code \in {"JAV2023001", "NOPE0000"} : HandleCodeDetected(code, "2")
  \/ SyncStart
  \/ SyncStep
  \/ SyncReturn
  \/ PullStart
  \/ PullDone

SpecOffline == Init /\ [][NextOffline]_vars

\* the store may also fail while syncData runs
NextFault ==
  \/ Next
  \/ \E at \in {"delete", "update"} : SyncStepFail(at)

SpecFault == Init /\ [][NextFault]_vars

\* the login screen
NextAuth ==
  \/ SeedDatabase
  \/ Tick
  \/ \E username \in Usernames, password \in Passwords : Login(username, password)
  \/ Logout

SpecAuth == Init /\ [][NextAuth]_vars

\* sessions: logging in, time passing, getCurrentUser on each page load, logging out
NextSession ==
  \/ SeedDatabase
  \/ \E days \in {1, TokenDays} : SessionAges(days)
  \/ \E username \in SessionUsers, password \in LoginPasswords : LoginStart(username, password)
  \/ LoginUpdate
  \/ LoginSetToken
  \/ LoginSetUserData
  \/ LoginReturn
  \/ GetCurrentUserAlone
  \/ LogoutPressed

SpecSession == Init /\ [][NextSession]_vars

\* a session restored by getCurrentUser while the user logs in
NextLogin ==
  \/ SeedDatabase
  \/ Tick
  \/ \E username \in Usernames, password \in LoginPasswords : LoginStart(username, password)
  \/ LoginUpdate
  \/ LoginSetToken
  \/ LoginSetUserData
  \/ LoginReturn
  \/ GetCurrentUser
  \/ \E c \in 1..MaxUserCalls : GetToken(c)
  \/ \E c \in 1..MaxUserCalls : GetUserData(c)
  \/ \E c \in 1..MaxUserCalls : RemoveToken(c)
  \/ \E c \in 1..MaxUserCalls : RemoveUserData(c)

SpecLogin == Init /\ [][NextLogin]_vars

\* the page loaded again and again while the store is in use
NextSeed ==
  \/ PageLoad
  \/ Tick
  \/ Login("examiner", <<"t","e","s","t">>)
  \/ HandleCodeDetected("JAV2023001", "2")
  \/ \E subject \in Subjects, studentId \in Students, randomNum \in RandomNums :
       HandleGenerateBarcode(subject, studentId, randomNum, "2")

SpecSeed == Init /\ [][NextSeed]_vars

\* scans and marks saved on a store that may throw
NextStoreFault ==
  \/ SeedDatabase
  \/ \E code \in {"JAV2023001", "NOPE0000"}, at \in ScanFaults : ProcessScanCall(code, "2", at)
  \/ \E studentId \in Students, totalMarks \in MarkTotals, fails \in MarksFaults :
       SaveExamMarksCall("1", studentId, totalMarks, "2", fails)

SpecStoreFault == Init /\ [][NextStoreFault]_vars

\* the mark-entry form of ScannerComponent.tsx
NextMarks ==
  \/ SeedDatabase
  \/ HandleManualEntry("JAV2023001", "2")
  \/ \E subject \in EditedSubjects, question \in Questions, value \in MarkInputs :
       HandleMarkChange(subject, question, value)
  \/ CancelMarkEntry
  \/ HandleSubmitMarks

SpecMarks == Init /\ [][NextMarks]_vars

\* the single-subject mark-entry form of the other variant of the page
NextSubjectMarks ==
  \/ SeedDatabase
  \/ HandleCodeDetected("JAV2023001", "2")
  \/ \E field \in EditedFields, entered \in MarkInputs :
       HandleSubjectMarkChange(field[1], field[2], entered)

SpecSubjectMarks == Init /\ [][NextSubjectMarks]_vars

\* the scanner page as ScannerComponent.tsx renders it
NextView ==
  \/ SeedDatabase
  \/ StartScanning
  \/ \E code \in ScanCodes \cup TestCodes, userId \in ScanUsers :
        HandleManualEntry(code, userId)
  \/ ClearError
  \/ ClearScanResult
  \/ CancelMarkEntry
  \/ HandleSubmitMarks

SpecView == Init /\ [][NextView]_vars

\* the SyncStatus panel next to the scanner's manual entry
NextSyncUi ==
  \/ SeedDatabase
  \/ \E code \in ScanCodes, userId \in ScanUsers : HandleCodeDetected(code, userId)
  \/ MountSyncStatus
  \/ OnlineEvent
  \/ OfflineEvent
  \/ SyncNow
  \/ \E r \in DOMAIN runs : RunStep(r)
  \/ \E r \in DOMAIN runs : RunSynced(r)
  \/ \E r \in DOMAIN runs : RunEnd(r)

SpecSyncUi == Init /\ [][NextSyncUi]_vars

\* generated barcodes over the weeks after their generation
NextExpiry ==
  \/ SeedDatabase
  \/ \E days \in {1, ExamValidityDays} : Elapse(days)
  \/ \E subject \in Subjects, studentId \in Students, randomNum \in RandomNums :
        HandleGenerateBarcode(subject, studentId, randomNum, "2")
  \/ \E code \in {barcodes[id].code : id \in DOMAIN barcodes \ DOMAIN SeedBarcodes(0)} :
        HandleCodeDetected(code, "2")

SpecExpiry == Init /\ [][NextExpiry]_vars

\* a BarcodeScanner and its callers
NextScanner ==
  \/ Start
  \/ \E c \in DOMAIN startCalls : CameraGranted(c)
  \/ \E c \in DOMAIN startCalls : CameraDenied(c)
  \/ \E c \in DOMAIN startCalls, detected \in BOOLEAN : PlayResolved(c, detected)
  \/ \E c \in DOMAIN startCalls : PlayRejected(c)
  \/ TimeoutFire
  \/ \E detected \in BOOLEAN : AnimationFrame(detected)
  \/ StopScanning

SpecScanner == Init /\ [][NextScanner]_vars

\* an armed timeout is fired by the browser
SpecScannerLive == SpecScanner /\ WF_vars(TimeoutFire)

-----------------------------------------------------------------------------
(* Properties                                                              *)

SampleLogIds == {UUID(1), UUID(2)}

\* the scan logs the step adds
NewLogs == DOMAIN scanLogs' \ DOMAIN scanLogs

\* the step is one call of handleCodeDetected that reached processScan
ScanStep ==
  /\ Seeded
  /\ uuids' # uuids
  /\ exams' = exams
  /\ examMarks' = examMarks
  /\ scanResult' # {}

\* the code the step scanned
ScannedCode == The(scanResult').code

\* the exam a barcode row points to exists and its expiry is before t
ExamExpiredAt(b, t) ==
  b.examId \in DOMAIN exams /\ exams[b.examId].expiryDate < t

\* C1: a scanned code with no barcode row in the store is reported not valid
\* ('Barcode not found in database'), and processScan logs the scan with
\* status 'invalid' and barcodeId, examId and studentId 'unknown'.
C1_NotFoundIsInvalid ==
  [][ScanStep /\ BarcodesWithCode(ScannedCode) = {} =>
       /\ ~validateBarcode(ScannedCode).isValid
       /\ validateBarcode(ScannedCode).message = "Barcode not found in database"
       /\ ~The(scanResult').isValid
       /\ Cardinality(NewLogs) = 1
       /\ \A id \in NewLogs :
            /\ scanLogs'[id].status = "invalid"
            /\ scanLogs'[id].barcodeId = "unknown"
            /\ scanLogs'[id].examId = "unknown"
            /\ scanLogs'[id].studentId = "unknown"]_vars

C1_Witness ==
  /\ scanResult # {}
  /\ The(scanResult).code = "NOPE0000"
  /\ \E id \in DOMAIN scanLogs \ SampleLogIds :
       scanLogs[id].barcodeId = "unknown" /\ scanLogs[id].status = "invalid"

\* C2 as stated: whenever the scanned code's barcode row points to an exam
\* whose expiry is before the scan, whatever the row's validity flag, the scan
\* is reported invalid and logged with status 'expired'.
C2_ExpiredWhateverFlag ==
  [][ScanStep =>
       \A b \in FirstBarcode(ScannedCode) :
         ExamExpiredAt(b, now) =>
           /\ ~The(scanResult').isValid
           /\ \A id \in NewLogs : scanLogs'[id].status = "expired"]_vars

\* C2 as amended: when the scanned code's barcode row points to an exam whose
\* expiry is before the scan, the scan is reported invalid; the log has status
\* 'expired' if the row is flagged valid and status 'invalid' if it is not.
C2_ExpiredIfFlaggedValid ==
  [][ScanStep =>
       \A b \in FirstBarcode(ScannedCode) :
         ExamExpiredAt(b, now) =>
           /\ ~The(scanResult').isValid
           /\ Cardinality(NewLogs) = 1
           /\ \A id \in NewLogs :
                /\ scanLogs'[id].scannedAt = now
                /\ scanLogs'[id].status = IF b.isValid THEN "expired" ELSE "invalid"]_vars

C2_Witness ==
  /\ scanResult # {}
  /\ ~The(scanResult).isValid
  /\ \E id \in DOMAIN scanLogs \ SampleLogIds :
       /\ scanLogs[id].status = "expired"
       /\ scanLogs[id].examId \in DOMAIN exams
       /\ exams[scanLogs[id].examId].expiryDate < scanLogs[id].scannedAt
       /\ scanLogs[id].scannedAt > 0

\* C3: one scan of a code whose barcode row is flagged valid and whose exam
\* exists and is not expired is reported valid and adds exactly one scan log,
\* with status 'valid'; no other scan log is added or removed.
C3_ValidOncePerScan ==
  [][ScanStep =>
       \A b \in FirstBarcode(ScannedCode) :
         (b.isValid /\ b.examId \in DOMAIN exams /\ ~ExamExpiredAt(b, now)) =>
           /\ The(scanResult').isValid
           /\ DOMAIN scanLogs \subseteq DOMAIN scanLogs'
           /\ Cardinality(NewLogs) = 1
           /\ \A id \in NewLogs :
                /\ scanLogs'[id].status = "valid"
                /\ scanLogs'[id].barcodeId = b.id
                /\ scanLogs'[id].examId = b.examId]_vars

C3_Witness ==
  /\ scanResult # {}
  /\ The(scanResult).isValid
  /\ Cardinality({id \in DOMAIN scanLogs \ SampleLogIds :
                    scanLogs[id].status = "valid"}) = 2

\* C4: with the seeded users, login succeeds exactly for ('admin', 'admin')
\* and ('examiner', 'test').
C4_DemoAccountsOnly ==
  ret.op = "login" =>
    (ret.success <=>
       \/ (ret.username = "admin" /\ ret.password = <<"a","d","m","i","n">>)
       \/ (ret.username = "examiner" /\ ret.password = <<"t","e","s","t">>))

C4_Witness ==
  /\ ret.op = "login"
  /\ ret.success
  /\ ret.username = "examiner"
  /\ userData # {}
  /\ The(userData).id = "2"

\* the codes a scan may be given
KnownCodes == ScanCodes \cup {barcodes[id].code : id \in DOMAIN barcodes}

\* C5: validateBarcode(code) is valid exactly when a row with the code exists,
\* is flagged valid, its exam exists and the exam's expiry is not before now;
\* otherwise the reason is the first that applies of not found, marked
\* invalid, exam not found, expired.
C5_ValidIffAllChecksPass ==
  \A code \in KnownCodes :
    LET v == validateBarcode(code)
        rows == BarcodesWithCode(code)
    IN  /\ v.isValid <=>
             /\ rows # {}
             /\ \A b \in v.barcode :
                  /\ b.isValid
                  /\ b.examId \in DOMAIN exams
                  /\ ~ExamExpiredAt(b, now)
        /\ rows = {} <=> v.message = "Barcode not found in database"
        /\ \A b \in v.barcode :
             /\ b.id \in rows
             /\ ~b.isValid <=> v.message = "Barcode marked as invalid"
             /\ (b.isValid /\ b.examId \notin DOMAIN exams)
                  <=> v.message = "Associated exam not found"
             /\ (b.isValid /\ ExamExpiredAt(b, now)) <=> v.message = "Exam has expired"
        /\ rows # {} => v.barcode # {}

C5_Witness ==
  /\ scanResult # {}
  /\ The(scanResult).code = "PHP2023002"
  /\ The(scanResult).message = "Barcode marked as invalid"
  /\ validateBarcode("PHP2023002").message = "Barcode marked as invalid"
  /\ isExamExpired("2")
  /\ validateBarcode("BIO2023001").message = "Exam has expired"
  /\ ~validateBarcode("JS2023001").isValid

\* C6: a scan log, once written, keeps its status, barcodeId, examId and
\* studentId through every later step; only a step of syncData changes the
\* log at all, and it changes nothing but syncStatus and syncedAt.
C6_ScanLogFrozen ==
  [][\A id \in DOMAIN scanLogs :
       /\ id \in DOMAIN scanLogs'
       /\ scanLogs'[id].status = scanLogs[id].status
       /\ scanLogs'[id].barcodeId = scanLogs[id].barcodeId
       /\ scanLogs'[id].examId = scanLogs[id].examId
       /\ scanLogs'[id].studentId = scanLogs[id].studentId
       /\ scanLogs'[id] # scanLogs[id] =>
            /\ sync.pc = "running"
            /\ scanLogs'[id] = [scanLogs[id] EXCEPT !.syncStatus = "synced",
                                                    !.syncedAt = {now}]]_vars

C6_Witness ==
  \E id \in DOMAIN scanLogs \ SampleLogIds :
    /\ scanLogs[id].status = "valid"
    /\ exams[scanLogs[id].examId].expiryDate < now
    /\ scanLogs[id].syncStatus = "synced"
    /\ scanLogs[id].scannedAt \notin scanLogs[id].syncedAt

\* no two rows of a queue stand for the same (action, table, recordId)
NoDuplicateRows(queue) ==
  \A a, b \in DOMAIN queue :
    (/\ queue[a].action = queue[b].action
     /\ queue[a].table = queue[b].table
     /\ queue[a].recordId = queue[b].recordId) => a = b

\* the records the step adds to a table
NewRecords(table) ==
  CASE table = "exams" -> DOMAIN exams' \ DOMAIN exams
    [] table = "barcodes" -> DOMAIN barcodes' \ DOMAIN barcodes
    [] table = "scanLogs" -> DOMAIN scanLogs' \ DOMAIN scanLogs
    [] table = "examMarks" -> DOMAIN examMarks' \ DOMAIN examMarks

\* the queue rows the step adds
NewRows == DOMAIN syncQueue' \ DOMAIN syncQueue

QueuedTables == {"exams", "barcodes", "scanLogs", "examMarks"}

C8_CodeResolvesToOneExam ==
  \A a, b \in DOMAIN barcodes :
    barcodes[a].code = barcodes[b].code => barcodes[a].examId = barcodes[b].examId

C10_FailedAttemptCounted ==
  [][(/\ sync.pc = "running"
      /\ sync'.pc = "idle"
      /\ sync'.result # {}
      /\ ~The(sync'.result).success) =>
       /\ NextItem.id \in DOMAIN syncQueue'
       /\ syncQueue'[NextItem.id].attempts = NextItem.attempts + 1]_vars


\* every start() call made so far has returned
StartsReturned == \A c \in DOMAIN startCalls : startCalls[c] = "done"

\* a start has succeeded: the scanner holds the stream that call acquired, and
\* the timeout that call armed is the one armed timer
ScanRunning ==
  /\ scanner.scanning
  /\ StartsReturned
  /\ \E c \in DOMAIN startCalls :
        scanner.stream = {c} /\ scanner.timeoutId = {c} /\ timers = <<c>>

\* C11: when the timeout of a running scan fires, the scanner stops (scanning
\* is false, the tracks of its stream are stopped, onStop is called once) and
\* onError is called once, with 'Scanning timeout reached', and no timeout
\* stays armed; and a scanner that is scanning eventually is not
C11_TimeoutEndsScan ==
  /\ [][TimeoutFire /\ ScanRunning =>
          /\ ~scanner'.scanning
          /\ scanner.stream # {}
          /\ liveStreams' = liveStreams \ scanner.stream
          /\ scanner'.stream = {}
          /\ timers' = << >>
          /\ callbacks'.onStop = callbacks.onStop + 1
          /\ callbacks'.onError = Append(callbacks.onError, "Scanning timeout reached")
          /\ ~viewScanning']_vars
  /\ (scanner.scanning ~> ~scanner.scanning)

C11_Witness ==
  /\ callbacks.onStart = 1
  /\ callbacks.onStop = 1
  /\ callbacks.onDetected = 0
  /\ callbacks.onError = <<"Scanning timeout reached">>
  /\ lastCall = "start"
  /\ ~scanner.scanning
  /\ liveStreams = {}

\* C19: once the last call made on the scanner is a stop() and every start()
\* call has returned, no stream the scanner acquired is live, no timeout is
\* armed, and scanning is false
C19_StoppedScannerIsReleased ==
  (lastCall = "stop" /\ StartsReturned) =>
    /\ liveStreams = {}
    /\ timers = << >>
    /\ ~scanner.scanning

\* C12: a press of Start Scanning in the idle view with no scan result shown
\* invokes BarcodeScanner.start (without which the component cannot reach the
\* scanning state: only the scanner's onStart sets it)
C12_StartInvokesScanner ==
  [][StartScanning /\ scanResult = {} =>
       lastCall' = "start" /\ Len(startCalls') = Len(startCalls) + 1]_vars

\* the step persists a marks record for the exam and student of the scan
\* shown, and adds exactly one 'create'/'examMarks' row for it to the queue
MarksPersisted ==
  \E id \in DOMAIN examMarks' \ DOMAIN examMarks :
    /\ DOMAIN examMarks' = DOMAIN examMarks \cup {id}
    /\ {examMarks'[id].examId} = The(scanResult).examId
    /\ {examMarks'[id].studentId} = The(scanResult).studentId
    /\ \E q \in DOMAIN syncQueue' \ DOMAIN syncQueue :
         /\ DOMAIN syncQueue' = DOMAIN syncQueue \cup {q}
         /\ syncQueue'[q].action = "create"
         /\ syncQueue'[q].table = "examMarks"
         /\ syncQueue'[q].recordId = id

\* C13: when the operator submits the marks of a valid scan, a marks record
\* for the scan's exam and student is persisted and exactly one
\* 'create'/'examMarks' row is queued for it
C13_SubmittedMarksPersisted ==
  [][HandleSubmitMarks /\ The(scanResult).isValid => MarksPersisted]_vars

\* C14: whenever the browser goes online while SyncStatus is mounted, a sync
\* run is started
C14_OnlineStartsSync ==
  [][OnlineEvent /\ listener # {} =>
       /\ Len(runs') = Len(runs) + 1
       /\ runs'[Len(runs')].by = "online"]_vars

\* C18: at most one sync run is in flight, and no queue row is counted as
\* synced by two runs
C18_OneSyncAtATime ==
  /\ Cardinality(RunsInFlight) <= 1
  /\ \A r1, r2 \in DOMAIN runs :
       r1 # r2 => runs[r1].read \cap runs[r2].read = {}

\* the outcome the dashboard documents for a test code
DocumentedStatus(code) ==
  IF code = "MATH2023001" THEN "valid"
  ELSE IF code = "PHYS2023002" THEN "invalid"
  ELSE "expired"

\* C16: on the freshly seeded store, a scan of a documented test code gives
\* the documented outcome: MATH2023001 valid, PHYS2023002 invalid,
\* BIO2023001 expired
C16_TestCodesAsDocumented ==
  [][ScanStep /\ Written = 0 /\ ScannedCode \in TestCodes =>
       /\ The(scanResult').isValid = (DocumentedStatus(ScannedCode) = "valid")
       /\ \A id \in NewLogs :
            scanLogs'[id].status = DocumentedStatus(ScannedCode)]_vars

\* the barcode rows the generator has written
GeneratedBarcodes == {barcodes[id] : id \in DOMAIN barcodes \ DOMAIN SeedBarcodes(0)}

\* what a scan of the row's code at the present time reports for a row
\* generated at most / more than 30 days ago
ValidForThirtyDays(b) ==
  LET v == validateBarcode(b.code) IN
    IF now <= b.createdAt + ExamValidityDays
      THEN v.isValid /\ ScanStatus(v) = "valid"
      ELSE ~v.isValid /\ v.message = "Exam has expired" /\ ScanStatus(v) = "expired"

\* C15: a generated barcode validates as valid at every time up to 30 days
\* after its generation, and as expired at every later time
C15_ValidForThirtyDays == \A b \in GeneratedBarcodes : ValidForThirtyDays(b)

\* the same for the generated barcodes whose code no other row carries
C15_ValidForThirtyDaysIfCodeUnique ==
  \A b \in GeneratedBarcodes :
    Cardinality(BarcodesWithCode(b.code)) = 1 => ValidForThirtyDays(b)

\* the ids crypto.randomUUID() can hand out within the bounds
AllIds == {UUID(n) : n \in 1..(2 + 4 * MaxOps)}

\* C17: every scan log whose syncStatus is 'pending' is eventually marked
\* 'synced'
C17_PendingLogsGetSynced ==
  \A id \in AllIds :
    (id \in DOMAIN scanLogs /\ scanLogs[id].syncStatus = "pending")
      ~> (id \in DOMAIN scanLogs /\ scanLogs[id].syncStatus = "synced")

\* login has returned success = true and the token it stored has not expired
LoggedIn(u) ==
  /\ loginCall.pc = "idle"
  /\ loginCall.result = {TRUE}
  /\ loginCall.user # {} /\ The(loginCall.user).id = u
  /\ The(loginCall.token).exp >= now

\* C20: however getCurrentUser calls interleave with a login call, once login
\* has returned success for user u the stored token and the stored user data
\* are both present and refer to u
C20_LoginSurvivesGetCurrentUser ==
  \A u \in DOMAIN users :
    LoggedIn(u) =>
      /\ authToken # {} /\ The(authToken).id = u
      /\ userData # {} /\ The(userData).id = u

\* how often onError was called with 'Scanning timeout reached'
TimeoutErrors(cb) ==
  Len(SelectSeq(cb.onError, LAMBDA message : message = "Scanning timeout reached"))

\* C21: onDetected is delivered at most once per started scan, and only by a
\* step in which the scanner has stopped itself (scanning false, stream
\* released, timeout cleared, onStop called); and while the last call made on
\* the scanner is a stop(), neither onDetected nor the 'Scanning timeout
\* reached' error is delivered
C21_NothingDeliveredAfterStop ==
  [][/\ callbacks'.onDetected # callbacks.onDetected =>
          /\ callbacks'.onDetected = callbacks.onDetected + 1
          /\ callbacks'.onDetected <= callbacks'.onStart
          /\ ~scanner'.scanning
          /\ scanner'.stream = {}
          /\ scanner'.timeoutId = {}
          /\ callbacks'.onStop = callbacks.onStop + 1
     /\ lastCall = "stop" /\ lastCall' = "stop" =>
          /\ callbacks'.onDetected = callbacks.onDetected
          /\ TimeoutErrors(callbacks') = TimeoutErrors(callbacks)]_vars

\* C21 for scans that no stop() call has crossed: the delivery half alone
C21_DetectedOnceAfterSelfStop ==
  [][callbacks'.onDetected # callbacks.onDetected =>
          /\ callbacks'.onDetected = callbacks.onDetected + 1
          /\ callbacks'.onDetected <= callbacks'.onStart
          /\ ~scanner'.scanning
          /\ scanner'.stream = {}
          /\ scanner'.timeoutId = {}
          /\ callbacks'.onStop = callbacks.onStop + 1]_vars

\* C27: when start() fails after the camera stream was acquired, then once
\* onError has been reported the acquired stream is released, scanning is
\* false and the call has armed no timeout
C27_FailedStartReleasesCamera ==
  [][\A c \in DOMAIN startCalls :
       PlayRejected(c) =>
         /\ callbacks'.onError = Append(callbacks.onError, "Could not start video stream")
         /\ c \notin liveStreams'
         /\ ~scanner'.scanning
         /\ scanner'.timeoutId = {}]_vars

\* what the last getCurrentUser call returned
Reported == The(userCalls[Len(userCalls)].result)

\* the stored session is good: both items stored, the token not past its
\* expiry and issued to the stored user
SessionGood ==
  /\ authToken # {}
  /\ userData # {}
  /\ now <= The(authToken).exp
  /\ The(authToken).id = The(userData).id

OfflineResult == [success |-> FALSE, message |-> "Device is offline"]

\* C23: syncData or pullUpdates called while the device is offline returns
\* success = false with 'Device is offline' and leaves the sync queue, every
\* scan log's syncStatus and the stored last-pull timestamp as they were
C23_OfflineCallsChangeNothing ==
  [][/\ (SyncStart /\ ~online) =>
          /\ sync'.pc = "idle"
          /\ \E r \in sync'.result :
               r.success = FALSE /\ r.message = "Device is offline" /\ r.syncedItems = {}
          /\ UNCHANGED <<syncQueue, scanLogs, lastPullSync>>
     /\ (PullStart /\ ~online) =>
          /\ pull'.pc = "idle"
          /\ pull'.result = {OfflineResult}
          /\ UNCHANGED <<syncQueue, scanLogs, lastPullSync>>]_vars

\* both calls were refused offline, with rows waiting in the queue, a pending
\* scan log and a timestamp of an earlier pull
C23_Witness ==
  /\ ~online
  /\ sync.pc = "idle"
  /\ \E r \in sync.result : r.message = "Device is offline"
  /\ pull.result = {OfflineResult}
  /\ DOMAIN syncQueue # {}
  /\ \E id \in DOMAIN scanLogs \ SampleLogIds : scanLogs[id].syncStatus = "pending"
  /\ lastPullSync # {}

\* the marks of the per-subject form are within their maxima and its totals
\* are within 50 and 250
PerSubjectMarksInRange ==
  /\ \A subject \in FormSubjects, question \in Questions :
       LET mark == The(OrElse(parseInt(allMarks[subject][question]), {0}))
       IN  0 <= mark /\ mark <= maxValues[question]
  /\ \A subject \in FormSubjects : calculateTotal(subject) <= 50
  /\ GrandTotal <= 250

\* the single-subject form: marks within 10, 4 and 8, the total their sum
SingleSubjectMarksRight ==
  /\ subjectMarks.tenMarks \in 0..10
  /\ \A i \in 1..4 : subjectMarks.fourMarks[i] \in 0..4
  /\ \A i \in 1..3 : subjectMarks.eightMarks[i] \in 0..8
  /\ formTotal = subjectMarks.tenMarks + SumSeq(subjectMarks.fourMarks)
                   + SumSeq(subjectMarks.eightMarks)
  /\ formTotal <= 50

\* C24: after any sequence of mark edits every mark is within 0..its maximum,
\* the total kept for a subject is the sum of that subject's marks, and the
\* totals do not exceed 50 (250 for the five subjects)
C24_MarksClampedAndSummed ==
  /\ PerSubjectMarksInRange
  /\ \A subject \in FormSubjects :
       parseInt(allMarks[subject].total) = {calculateTotal(subject)}
  /\ SingleSubjectMarksRight

\* the ids of the marks records the step adds, to the database or to localStorage
StoredMarkIds(table, list) == DOMAIN table \cup {list[i].id : i \in DOMAIN list}

NewMarkIds == StoredMarkIds(examMarks', lsExamMarks') \ StoredMarkIds(examMarks, lsExamMarks)

\* the step is a call of saveExamMarks
SaveMarksStep ==
  \E studentId \in Students, totalMarks \in MarkTotals, fails \in MarksFaults :
    SaveExamMarksCall("1", studentId, totalMarks, "2", fails)

\* C25: a call of saveExamMarks either returns an id and has stored the marks
\* record under that id and under no other, or throws and has stored none
C25_OneRecordOrNone ==
  [][SaveMarksStep =>
       IF ret'.threw
         THEN NewMarkIds = {}
         ELSE NewMarkIds = ret'.returned /\ Cardinality(ret'.returned) = 1]_vars

\* the step is a call of processScan
ProcessScanStep ==
  \E code \in {"JAV2023001", "NOPE0000"}, at \in ScanFaults : ProcessScanCall(code, "2", at)

\* C28: a call of processScan that returns success = false has added no
\* scan-log row and no sync-queue row, and a call that adds a scan-log row
\* adds the sync-queue row of that log
C28_FailedScanWritesNothing ==
  [][ProcessScanStep =>
       /\ ~ret'.success => UNCHANGED <<scanLogs, syncQueue>>
       /\ \A id \in DOMAIN scanLogs' \ DOMAIN scanLogs :
            \E row \in DOMAIN syncQueue' \ DOMAIN syncQueue :
              /\ syncQueue'[row].table = "scanLogs"
              /\ syncQueue'[row].recordId = id]_vars

\* C26: seedDatabase on a store that already contains users adds, changes
\* and removes nothing, so however often it runs the store holds what the
\* first run, on the empty store, and the handlers since have put there
C26_SeedIsIdempotent ==
  [][PageLoad =>
       IF DOMAIN users # {}
         THEN UNCHANGED <<users, exams, barcodes, scanLogs, examMarks, syncQueue, uuids>>
         ELSE /\ users' = SeedUsers(now)
              /\ exams' = SeedExams(now)
              /\ barcodes' = SeedBarcodes(now)
              /\ DOMAIN scanLogs' = SampleLogIds]_vars

\* the page has been loaded three times, with a login, a scan and a generated
\* barcode in between and the clock advanced
C26_Witness ==
  /\ loads = 3
  /\ now > 0
  /\ \E id \in DOMAIN users : users[id].lastLogin > 0
  /\ DOMAIN scanLogs \ SampleLogIds # {}
  /\ DOMAIN barcodes \ DOMAIN SeedBarcodes(0) # {}

====
